---- MODULE Spec2Model ----
(***************************************************************************)
(* Model of the journal application: the stats route of the backend        *)
(* (routes/stats.js), and the journal page of the front end                *)
(* (JournalPage.jsx) with its encryptText / decryptText helpers.           *)
(*                                                                         *)
(* Dates.  A JS Date is a number of ticks; TicksPerDay ticks make one      *)
(* calendar day of the server's local time.  A stored dateOnly is the      *)
(* day string the page produced with toDateString(); it is modelled by     *)
(* the number of its calendar day, and new Date(dateOnly) is local         *)
(* midnight of that day.                                                   *)
(*                                                                         *)
(* Moods.  The emoji of the page's moods list are written as ASCII names:  *)
(* "smile", "pensive", "angry", "scream", "sleepy", "heart".               *)
(*                                                                         *)
(* Codec.  CryptoJS.AES with a passphrase is kept in its structure: a      *)
(* random salt, a key and an IV derived from passphrase and salt, CBC      *)
(* chaining over blocks of BlockSize bytes, PKCS7 padding that is removed  *)
(* without being validated, the OpenSSL format "Salted__" + salt + blocks, *)
(* and UTF-8 decoding that throws on malformed bytes.  The AES block       *)
(* permutation is replaced by a small keyed permutation, and XOR by        *)
(* addition modulo the number of byte values.  Bytes 0..BlockSize+1 are    *)
(* ASCII (1..BlockSize are the control characters that are also padding    *)
(* values, as 0x01..0x10 are for AES), and two more byte values are the    *)
(* lead and the continuation byte of the one multi-byte character, the     *)
(* warning sign the failure placeholders start with.                       *)
(***************************************************************************)
EXTENDS Integers, Sequences, FiniteSets, TLC

VARIABLES
    store,          \* JournalEntry collection of the user, in storage order
    now,            \* the server clock, in ticks
    userExists,     \* whether User.findById finds the authenticated user
    pc,             \* position of the stats handler
    totalEntries,   \* stats handler local: result of countDocuments
    journals,       \* stats handler local: result of find
    response,       \* the last response of the stats handler
    secretKey,      \* SECRET_KEY of the build of the page
    plain,          \* codec: the text last given to an encryption
    cipher,         \* codec: the ciphertext at hand
    origin,         \* codec: how the ciphertext at hand came to be
    shown,          \* codec: what decryptText returned for it
    loggedIn,       \* page: AuthContext has a user and a token
    effectRan,      \* page: the effect that fetches the entries has run
    entry,          \* page: the text in the textarea
    mood,           \* page: the selected mood, "" for none
    entries,        \* page: the displayed entries, first on top
    aiResult,       \* page: state of the AI result box
    errorMessage,   \* page: the message under the textarea
    showLoginAlert, \* page: the login alert flag
    net,            \* requests of the page and their responses, in flight
    nextId,         \* journal route: the next _id the store assigns
    nextTemp,       \* page: the Date.now() of the next submission
    zone,           \* page: local time of the browser minus that of the server
    mongo,          \* server.js: state of the promise of mongoose.connect
    listening       \* server.js: app.listen has been called

statsVars == <<store, now, userExists, pc, totalEntries, journals, response>>

codecVars == <<secretKey, plain, cipher, origin, shown>>

hostVars == <<zone, mongo, listening>>

pageVars == <<loggedIn, effectRan, entry, mood, entries, aiResult, errorMessage,
              showLoginAlert, net, nextId, nextTemp, hostVars>>

vars == <<statsVars, codecVars, pageVars>>

----------------------------------------------------------------------------
(* Bounds *)

MaxEntries == 4        \* entries in the store when the days vary
MaxMoodEntries == 3    \* entries in the store when the moods vary
TicksPerDay == 2       \* resolution of the time of day

BlockSize == 2         \* bytes in a cipher block
MaxLen == 2            \* characters in a text given to the codec
MaxKey == 1            \* passphrases 0..MaxKey
MaxSalt == 1           \* salts 0..MaxSalt

MaxSubmits == 1        \* submissions of the page that pass its guards
MaxInFlight == 2       \* requests and responses in flight
MaxMoodButton == 1     \* the mood buttons 1..MaxMoodButton are clicked

MaxPureEntries == 3    \* entries in the store when their times of day vary
MaxBadEntries == 3     \* entries in the store when some are malformed
MaxServerEntries == 2  \* entries in the store when the server starts
MaxDeleteEntries == 2  \* entries in the store before the deletions
MaxZone == 1           \* time zones of the browser: 0..MaxZone ticks ahead

MaxDay == MaxEntries   \* calendar days 0..MaxDay

Days == 0..MaxDay

----------------------------------------------------------------------------
(* JournalPage.jsx: the mood buttons *)

moods == <<"smile", "pensive", "angry", "scream", "sleepy", "heart">>

PageMoods == {moods[i] : i \in 1..Len(moods)}

----------------------------------------------------------------------------
(* JournalPage.jsx: encryptText / decryptText over CryptoJS.AES *)

ByteCount == BlockSize + 4
Bytes == 0..(ByteCount - 1)
LeadByte == BlockSize + 2          \* first byte of the two-byte character
ContByte == BlockSize + 3          \* its continuation byte
Ascii == 0..(BlockSize + 1)        \* characters of one byte
WarnChar == ByteCount              \* the warning sign
Chars == Ascii \cup {WarnChar}
Keys == 0..MaxKey
Salts == 0..MaxSalt
Magic == 0 - 1                     \* the "Salted__" prefix

\* line 45: the string returned for an empty decoding
FailedToDecrypt == <<WarnChar, BlockSize + 1>>

\* line 47: the string returned when the decoding throws
InvalidEntry == <<WarnChar, 0>>

Placeholders == {FailedToDecrypt, InvalidEntry}

\* the string is empty as it stands, without trim
IsEmptyUntrimmed(text) == text = <<>>

\* String.prototype.trim leaves nothing: only white space (the control
\* characters stand for newline and tab)
IsBlank(text) == \A i \in 1..Len(text) : text[i] \in 1..BlockSize

RECURSIVE Utf8Parse(_)
\* CryptoJS.enc.Utf8.parse: the bytes of a string
Utf8Parse(text) ==
    IF text = <<>> THEN <<>>
    ELSE (IF Head(text) = WarnChar THEN <<LeadByte, ContByte>> ELSE <<Head(text)>>)
         \o Utf8Parse(Tail(text))

RECURSIVE Utf8Stringify(_)
\* CryptoJS.enc.Utf8.stringify: the string of the bytes, or "Malformed UTF-8 data"
Utf8Stringify(bytes) ==
    IF bytes = <<>> THEN [ok |-> TRUE, str |-> <<>>]
    ELSE IF Head(bytes) \in Ascii
         THEN LET r == Utf8Stringify(Tail(bytes))
              IN  IF r.ok THEN [ok |-> TRUE, str |-> <<Head(bytes)>> \o r.str] ELSE r
    ELSE IF Head(bytes) = LeadByte /\ Len(bytes) >= 2 /\ bytes[2] = ContByte
         THEN LET r == Utf8Stringify(Tail(Tail(bytes)))
              IN  IF r.ok THEN [ok |-> TRUE, str |-> <<WarnChar>> \o r.str] ELSE r
    ELSE [ok |-> FALSE, str |-> <<>>]

\* CryptoJS.pad.Pkcs7.pad: n bytes of value n up to the next block boundary
Pkcs7Pad(bytes) ==
    LET n == BlockSize - (Len(bytes) % BlockSize)
    IN  bytes \o [i \in 1..n |-> n]

\* CryptoJS.pad.Pkcs7.unpad: sigBytes -= last byte, whatever the last byte is
Pkcs7Unpad(bytes) ==
    LET n == IF bytes = <<>> THEN 0 ELSE bytes[Len(bytes)]
    IN  IF Len(bytes) - n <= 0 THEN <<>> ELSE SubSeq(bytes, 1, Len(bytes) - n)

\* OpenSSL key derivation: key and IV from passphrase and salt
DeriveKey(passphrase, salt) ==
    [shift |-> 1 + ((passphrase * (MaxSalt + 1) + salt) % (ByteCount - 1)),
     iv    |-> [i \in 1..BlockSize |-> (passphrase + 2 * salt + i) % ByteCount]]

\* the keyed block permutation and its inverse
EncryptBlock(key, block) ==
    [i \in 1..BlockSize |-> (block[i] + key.shift + i) % ByteCount]

DecryptBlock(key, block) ==
    [i \in 1..BlockSize |-> (block[i] + 2 * ByteCount - key.shift - i) % ByteCount]

AddBlock(a, b) == [i \in 1..BlockSize |-> (a[i] + b[i]) % ByteCount]

SubBlock(a, b) == [i \in 1..BlockSize |-> (a[i] + ByteCount - b[i]) % ByteCount]

RECURSIVE CbcEncrypt(_, _, _)
\* CBC: each block is combined with the previous cipher block, then permuted
CbcEncrypt(key, prev, bytes) ==
    IF Len(bytes) < BlockSize THEN <<>>
    ELSE LET c == EncryptBlock(key, AddBlock(SubSeq(bytes, 1, BlockSize), prev))
         IN  c \o CbcEncrypt(key, c, SubSeq(bytes, BlockSize + 1, Len(bytes)))

RECURSIVE CbcDecrypt(_, _, _)
\* the whole blocks of bytes, decrypted
CbcDecrypt(key, prev, bytes) ==
    IF Len(bytes) < BlockSize THEN <<>>
    ELSE LET c == SubSeq(bytes, 1, BlockSize)
         IN  SubBlock(DecryptBlock(key, c), prev)
             \o CbcDecrypt(key, c, SubSeq(bytes, BlockSize + 1, Len(bytes)))

\* CryptoJS.AES.encrypt(text, passphrase).toString() with the salt drawn
Encrypt(text, passphrase, salt) ==
    LET key == DeriveKey(passphrase, salt)
    IN  <<Magic, salt>> \o CbcEncrypt(key, key.iv, Pkcs7Pad(Utf8Parse(text)))

\* lines 39-40
EncryptText(text, salt) == Encrypt(text, secretKey, salt)

\* format.OpenSSL.parse: the salt, when the prefix is there, and the blocks
ParseOpenSSL(ciphertext) ==
    IF Len(ciphertext) >= 2 /\ ciphertext[1] = Magic /\ ciphertext[2] \in Salts
    THEN [salted |-> TRUE, salt |-> ciphertext[2],
          blocks |-> SubSeq(ciphertext, 3, Len(ciphertext))]
    ELSE [salted |-> FALSE, salt |-> 0, blocks |-> ciphertext]

\* CryptoJS.AES.decrypt(ciphertext, SECRET_KEY): the bytes after unpadding.
\* Without a salt in the input the key derivation draws one: random.
DecryptBytes(ciphertext, random) ==
    LET p   == ParseOpenSSL(ciphertext)
        key == DeriveKey(secretKey, IF p.salted THEN p.salt ELSE random)
    IN  Pkcs7Unpad(CbcDecrypt(key, key.iv, p.blocks))

\* lines 42-49
DecryptText(ciphertext, random) ==
    LET u == Utf8Stringify(DecryptBytes(ciphertext, random))
    IN  IF ~u.ok THEN InvalidEntry
        ELSE IF u.str = <<>> THEN FailedToDecrypt
        ELSE u.str

----------------------------------------------------------------------------
(* routes/stats.js *)

moodMap == [m \in {"Very Sad", "Sad", "Neutral", "Happy", "Very Happy"} |->
              CASE m = "Very Sad" -> 1
                [] m = "Sad" -> 2
                [] m = "Neutral" -> 3
                [] m = "Happy" -> 4
                [] m = "Very Happy" -> 5]

\* moodMap[j.mood] || 3
MoodValue(m) == IF m \in DOMAIN moodMap THEN moodMap[m] ELSE 3

RECURSIVE TotalMood(_)
\* journals.reduce((sum, j) => sum + (moodMap[j.mood] || 3), 0)
TotalMood(js) ==
    IF js = <<>> THEN 0
    ELSE TotalMood(SubSeq(js, 1, Len(js) - 1)) + MoodValue(js[Len(js)].mood)

\* a toFixed that cuts the digits after the first instead of rounding
ToFixed1Truncating(total, n) == (10 * total) \div n

\* (total / n).toFixed(1): the decimal string with one fraction digit that is
\* nearest to the quotient, the larger one of two equally near.  The result is
\* kept as its number of tenths.  The quotient is a double; for n < 20 every
\* quotient that lies halfway between two tenths is a multiple of 1/4 and so
\* exact in binary, which is why the tie rule applies to the exact quotient.
ToFixed1(total, n) == (20 * total + n) \div (2 * n)

\* the average without the journals.length > 0 guard: 0 / 0 is NaN
AverageMoodUnguarded(js) ==
    [kind |-> "string",
     tenths |-> IF Len(js) > 0 THEN ToFixed1(TotalMood(js), Len(js)) ELSE "NaN"]

\* lines 23-28: the number 0, or the string toFixed returns
AverageMood(js) ==
    IF Len(js) > 0
    THEN [kind |-> "string", tenths |-> ToFixed1(TotalMood(js), Len(js))]
    ELSE [kind |-> "number", tenths |-> 0]

\* The strings kept as dateOnly.  A number d >= 0 is the day string of day d,
\* as toDateString() writes it; Malformed is a string that is no date; and
\* WithTime(t) is a date string with a time of day, that of the instant t.
Malformed == 0 - 1

WithTime(t) == 0 - t - 2

\* the time value of an Invalid Date
NaN == 0 - 1

\* new Date(j.dateOnly): local midnight of the day of a day string, the
\* instant of a string with a time, an Invalid Date for any other string
NewDate(dateOnly) ==
    IF dateOnly = Malformed THEN NaN
    ELSE IF dateOnly < Malformed THEN 0 - dateOnly - 2
    ELSE dateOnly * TicksPerDay

\* (getFullYear(), getMonth(), getDate()) of a Date: its local calendar day
CalendarDay(t) == t \div TicksPerDay

\* today.setDate(today.getDate() - 1): same time of day, one day earlier
SetDateBack(t) == t - TicksPerDay

\* (a, b) => b - a as Array.prototype.sort calls it: a result NaN, which an
\* Invalid Date gives with every date, is taken as +0
SortCompare(a, b) == IF a = NaN \/ b = NaN THEN 0 ELSE b - a

RECURSIVE RunEnd(_, _, _)
\* the last position of the run of s that goes on at position idx
RunEnd(s, idx, isDescending) ==
    IF idx > Len(s) THEN idx - 1
    ELSE LET order == SortCompare(s[idx], s[idx - 1])
         IN  IF (isDescending /\ order >= 0) \/ (~isDescending /\ order < 0)
             THEN idx - 1
             ELSE RunEnd(s, idx + 1, isDescending)

RECURSIVE Reverse(_)
Reverse(s) == IF s = <<>> THEN <<>> ELSE Reverse(Tail(s)) \o <<Head(s)>>

\* the run s begins with, put in order: its length, and s with it reversed
\* when it was strictly descending
CountAndMakeRun(s) ==
    LET isDescending == SortCompare(s[2], s[1]) < 0
        runLength == RunEnd(s, 3, isDescending)
    IN  [runLength |-> runLength,
         array |-> IF isDescending
                   THEN Reverse(SubSeq(s, 1, runLength)) \o SubSeq(s, runLength + 1, Len(s))
                   ELSE s]

RECURSIVE InsertionPoint(_, _, _, _)
\* binary search for the place of pivot among the positions left..right-1
InsertionPoint(s, pivot, left, right) ==
    IF left >= right THEN left
    ELSE LET mid == left + ((right - left) \div 2)
         IN  IF SortCompare(pivot, s[mid]) < 0
             THEN InsertionPoint(s, pivot, left, mid)
             ELSE InsertionPoint(s, pivot, mid + 1, right)

RECURSIVE BinaryInsertionSort(_, _)
\* the elements from position start on, inserted one by one into those before
BinaryInsertionSort(s, start) ==
    IF start > Len(s) THEN s
    ELSE LET pivot == s[start]
             left == InsertionPoint(s, pivot, 1, start)
         IN  BinaryInsertionSort(SubSeq(s, 1, left - 1) \o <<pivot>>
                                   \o SubSeq(s, left, start - 1)
                                   \o SubSeq(s, start + 1, Len(s)),
                                 start + 1)

\* the dates left in storage order
SortOmitted(s) == s

\* .sort((a, b) => b - a) as Node sorts an array of fewer than 64 elements:
\* the run the array begins with is found, and the elements after it are put
\* in by binary insertion.  For dates that are all valid this is the stable
\* sort, most recent first; with an Invalid Date among them the comparator is
\* not consistent, and the order is the one this procedure leaves.
SortDesc(s) ==
    IF Len(s) < 2 THEN s
    ELSE LET run == CountAndMakeRun(s)
         IN  BinaryInsertionSort(run.array, run.runLength + 1)

\* a loop body that takes a date for today when it is less than a day before
LoopBranchByElapsedTime(d, today) ==
    IF d # NaN /\ today - d >= 0 /\ today - d < TicksPerDay THEN "count"
    ELSE IF d # NaN /\ d < today THEN "break"
    ELSE "skip"

\* a loop body that ends the walk at every date that is not the day looked for
LoopBranchWithoutSkip(d, today) ==
    IF CalendarDay(d) = CalendarDay(today) THEN "count" ELSE "break"

\* the branch the loop body takes for date d: lines 41-51.  The getters of
\* an Invalid Date return NaN, which equals nothing and is less than nothing.
LoopBranch(d, today) ==
    IF d # NaN /\ CalendarDay(d) = CalendarDay(today) THEN "count"
    ELSE IF d # NaN /\ d < today THEN "break"
    ELSE "skip"

RECURSIVE StreakLoop(_, _, _)
\* a streak counted backward from the most recent entry instead of the clock
ComputeStreakFromLatest(js, clock) ==
    IF Len(js) > 0
    THEN LET dates == SortDesc([i \in 1..Len(js) |-> NewDate(js[i].dateOnly)])
         IN  StreakLoop(dates, Head(dates), 0)
    ELSE 0

\* for (let d of dates) { ... }: lines 39-52
StreakLoop(dates, today, streak) ==
    IF dates = <<>> THEN streak
    ELSE LET b == LoopBranch(Head(dates), today)
         IN  CASE b = "count" -> StreakLoop(Tail(dates), SetDateBack(today), streak + 1)
               [] b = "break" -> streak
               [] OTHER       -> StreakLoop(Tail(dates), today, streak)

\* lines 30-53, with today = new Date() = clock
ComputeStreak(js, clock) ==
    IF Len(js) > 0
    THEN StreakLoop(SortDesc([i \in 1..Len(js) |-> NewDate(js[i].dateOnly)]), clock, 0)
    ELSE 0

NoResponse == [status |-> 0]

\* the request arrives and passes authMiddleware: lines 10-12
StatsRequest ==
    /\ pc \in {"idle", "done"}
    /\ pc' = "findUser"
    /\ response' = NoResponse
    /\ totalEntries' = 0
    /\ journals' = <<>>
    /\ UNCHANGED <<store, now, userExists>>
    /\ UNCHANGED <<codecVars, pageVars>>

\* a count taken from the ids the store has assigned so far
StatsCountAssignedIds ==
    /\ pc = "count"
    /\ totalEntries' = nextId - 1
    /\ pc' = "find"
    /\ UNCHANGED <<store, now, userExists, journals, response>>
    /\ UNCHANGED <<codecVars, pageVars>>

\* lines 15-16
StatsFindUser ==
    /\ pc = "findUser"
    /\ IF userExists
       THEN /\ pc' = "count"
            /\ UNCHANGED response
       ELSE /\ pc' = "done"
            /\ response' = [status |-> 404]
    /\ UNCHANGED <<store, now, userExists, totalEntries, journals>>
    /\ UNCHANGED <<codecVars, pageVars>>

\* line 19
StatsCountDocuments ==
    /\ pc = "count"
    /\ totalEntries' = Len(store)
    /\ pc' = "find"
    /\ UNCHANGED <<store, now, userExists, journals, response>>
    /\ UNCHANGED <<codecVars, pageVars>>

\* lines 22-53: the find, then averageMood and streak up to the next await.
\* The values computed are kept in the response under construction.
StatsFind ==
    /\ pc = "find"
    /\ journals' = store
    /\ response' = [status |-> 0,
                    averageMood |-> AverageMood(store),
                    streak |-> ComputeStreak(store, now)]
    /\ pc' = "posts"
    /\ UNCHANGED <<store, now, userExists, totalEntries>>
    /\ UNCHANGED <<codecVars, pageVars>>

\* lines 58-67
StatsRespond ==
    /\ pc = "posts"
    /\ response' = [status |-> 200,
                    totalEntries |-> totalEntries,
                    averageMood |-> response.averageMood,
                    streak |-> response.streak]
    /\ pc' = "done"
    /\ UNCHANGED <<store, now, userExists, totalEntries, journals>>
    /\ UNCHANGED <<codecVars, pageVars>>

----------------------------------------------------------------------------
(* The stats handler over bounded inputs *)

Labels == DOMAIN moodMap

Clocks == 0..((MaxDay + 1) * TicksPerDay - 1)

Stores(entryInputs, maxLen) == UNION {[1..n -> entryInputs] : n \in 0..maxLen}

NotYet == <<Magic>>

\* no codec call yet
InitCodecIdle ==
    /\ secretKey = 0
    /\ plain = <<>>
    /\ cipher = <<>>
    /\ origin = "none"
    /\ shown = NotYet

\* the server has connected and listens, in the time zone of the browser
InitHost ==
    /\ zone = 0
    /\ mongo = "connected"
    /\ listening = TRUE

\* the page is not open
InitPageIdle ==
    /\ loggedIn = FALSE
    /\ effectRan = FALSE
    /\ entry = <<>>
    /\ mood = ""
    /\ entries = <<>>
    /\ aiResult = "none"
    /\ errorMessage = ""
    /\ showLoginAlert = FALSE
    /\ net = {}
    /\ nextId = 1
    /\ nextTemp = 1
    /\ InitHost

\* the locals of a handler that has not run yet
InitHandler ==
    /\ pc = "idle"
    /\ totalEntries = 0
    /\ journals = <<>>
    /\ response = NoResponse

NextStats ==
    \/ StatsRequest
    \/ StatsFindUser
    \/ StatsCountDocuments
    \/ StatsFind
    \/ StatsRespond

\* Entries of one mood on any days, in any storage order, and any clock.
\* A user that no longer exists is taken with an empty collection.
InitStreak ==
    /\ userExists \in BOOLEAN
    /\ store \in IF userExists
                 THEN Stores([mood : {"Happy"}, dateOnly : Days], MaxEntries)
                 ELSE {<<>>}
    /\ now \in Clocks
    /\ InitHandler
    /\ InitCodecIdle
    /\ InitPageIdle

SpecStreak == InitStreak /\ [][NextStats]_vars

\* Entries of any mood, of the scale or of the page, on two days.
InitMood ==
    /\ userExists \in BOOLEAN
    /\ store \in IF userExists
                 THEN Stores([mood : Labels \cup PageMoods, dateOnly : 0..1],
                             MaxMoodEntries)
                 ELSE {<<>>}
    /\ now \in {NewDate(1), NewDate(1) + 1}
    /\ InitHandler
    /\ InitCodecIdle
    /\ InitPageIdle

SpecMood == InitMood /\ [][NextStats]_vars

\* the instants of the days 0..maxDay that are not midnight
TimesOfDay(maxDay) == {t \in 0..((maxDay + 1) * TicksPerDay - 1) : t % TicksPerDay # 0}

\* Entries whose dateOnly is a day string or a date string with a time of
\* day, in any storage order, and any clock.
InitPure ==
    /\ userExists = TRUE
    /\ store \in Stores([mood : {"Happy"},
                          dateOnly : (0..(MaxPureEntries - 1))
                                     \cup {WithTime(t) : t \in TimesOfDay(MaxPureEntries - 1)}],
                         MaxPureEntries)
    /\ now \in 0..(MaxPureEntries * TicksPerDay - 1)
    /\ InitHandler
    /\ InitCodecIdle
    /\ InitPageIdle

SpecPure == InitPure /\ [][NextStats]_vars

\* Entries some of which have a dateOnly that is no date.
InitMalformed ==
    /\ userExists = TRUE
    /\ store \in Stores([mood : {"Happy"},
                          dateOnly : (0..(MaxBadEntries - 1)) \cup {Malformed}],
                         MaxBadEntries)
    /\ now \in 0..(MaxBadEntries * TicksPerDay - 1)
    /\ InitHandler
    /\ InitCodecIdle
    /\ InitPageIdle

SpecMalformed == InitMalformed /\ [][NextStats]_vars

----------------------------------------------------------------------------
(* The codec over bounded inputs: a text is encrypted by this build or by a *)
(* build with another key, the ciphertext may be damaged on its way, and    *)
(* decryptText is applied to what arrives.                                  *)

Texts == UNION {[1..n -> Chars] : n \in 0..MaxLen}

\* encryptText(x)
CodecEncrypt ==
    /\ \E x \in Texts : \E salt \in Salts :
          /\ plain' = x
          /\ cipher' = EncryptText(x, salt)
    /\ origin' = "encryptText"
    /\ shown' = NotYet
    /\ UNCHANGED <<secretKey, statsVars, pageVars>>

\* a ciphertext that a build with another SECRET_KEY produced
CodecOtherKey ==
    /\ \E x \in Texts : \E k \in Keys \ {secretKey} : \E salt \in Salts :
          /\ plain' = x
          /\ cipher' = Encrypt(x, k, salt)
    /\ origin' = "otherKey"
    /\ shown' = NotYet
    /\ UNCHANGED <<secretKey, statsVars, pageVars>>

\* one byte of the blocks of the ciphertext is changed
CodecCorrupt ==
    /\ origin = "encryptText"
    /\ shown = NotYet
    /\ \E i \in 3..Len(cipher) : \E b \in Bytes \ {cipher[i]} :
          cipher' = [cipher EXCEPT ![i] = b]
    /\ origin' = "corrupted"
    /\ UNCHANGED <<secretKey, plain, shown, statsVars, pageVars>>

\* the last block of the ciphertext is lost
CodecTruncate ==
    /\ origin = "encryptText"
    /\ shown = NotYet
    /\ Len(cipher) >= 2 + 2 * BlockSize
    /\ cipher' = SubSeq(cipher, 1, Len(cipher) - BlockSize)
    /\ origin' = "truncated"
    /\ UNCHANGED <<secretKey, plain, shown, statsVars, pageVars>>

\* the ciphertext arrives without its "Salted__" prefix and salt
CodecWrongFormat ==
    /\ origin = "encryptText"
    /\ shown = NotYet
    /\ cipher' = SubSeq(cipher, 3, Len(cipher))
    /\ origin' = "wrongFormat"
    /\ UNCHANGED <<secretKey, plain, shown, statsVars, pageVars>>

\* decryptText(ciphertext)
CodecDecrypt ==
    /\ origin # "none"
    /\ shown = NotYet
    /\ \E random \in Salts : shown' = DecryptText(cipher, random)
    /\ UNCHANGED <<secretKey, plain, cipher, origin, statsVars, pageVars>>

InitCodec ==
    /\ secretKey \in Keys
    /\ plain = <<>>
    /\ cipher = <<>>
    /\ origin = "none"
    /\ shown = NotYet
    /\ store = <<>>
    /\ now = 0
    /\ userExists = TRUE
    /\ InitHandler
    /\ InitPageIdle

NextCodec ==
    \/ CodecEncrypt
    \/ CodecOtherKey
    \/ CodecCorrupt
    \/ CodecTruncate
    \/ CodecWrongFormat
    \/ CodecDecrypt

SpecCodec == InitCodec /\ [][NextCodec]_vars

----------------------------------------------------------------------------
(* JournalPage.jsx: the page, and the journal and AI routes it talks to.   *)
(* The routes are not among the sources; they are modelled from the data   *)
(* model: a created entry gets an id and createdAt, a delete removes it.   *)
(* A stored entry carries, for the properties only, the text its author    *)
(* wrote (plain) and whether this build's encryptText produced it.         *)

pageFrame == <<now, userExists, pc, totalEntries, journals, response,
               secretKey, plain, cipher, origin, shown, hostVars>>

\* tempEntry.id = Date.now(): told apart from the ids of the store
TempId(n) == 0 - n

Sent(kind) == {m \in net : m.kind = kind /\ m.phase = "sent"}
Ok(kind) == {m \in net : m.kind = kind /\ m.phase = "ok"}
Failed(kind) == {m \in net : m.kind = kind /\ m.phase = "failed"}

CanSend == Cardinality(net) < MaxInFlight

\* new Date(t).toDateString() in the browser: the calendar day of its time zone
LocalDay(t) == CalendarDay(t + zone)

\* an entry of a response as the page displays it: lines 60-66 and 114-120
Displayed(e, random) ==
    [id |-> e.id,
     text |-> DecryptText(e.text, random),
     mood |-> e.mood,
     dateOnly |-> LocalDay(e.createdAt)]

\* lines 51-73, up to the await: the effect runs after the first render
FetchEntries ==
    /\ ~effectRan
    /\ effectRan' = TRUE
    /\ IF loggedIn
       THEN net' = net \cup {[kind |-> "GET", phase |-> "sent"]}
       ELSE UNCHANGED net
    /\ UNCHANGED <<loggedIn, entry, mood, entries, aiResult, errorMessage,
                   showLoginAlert, nextId, nextTemp, store, pageFrame>>

\* lines 58-67: the response of the GET is displayed
FetchResponded(m) ==
    /\ m \in Ok("GET")
    /\ \E random \in Salts :
          entries' = [i \in 1..Len(m.data) |-> Displayed(m.data[i], random)]
    /\ net' = net \ {m}
    /\ UNCHANGED <<loggedIn, effectRan, entry, mood, aiResult, errorMessage,
                   showLoginAlert, nextId, nextTemp, store, pageFrame>>

\* lines 68-70: console.error
FetchFailed(m) ==
    /\ m \in Failed("GET")
    /\ net' = net \ {m}
    /\ UNCHANGED <<loggedIn, effectRan, entry, mood, entries, aiResult, errorMessage,
                   showLoginAlert, nextId, nextTemp, store, pageFrame>>

\* line 190: onChange of the textarea
TypeEntry(text) ==
    /\ text # entry
    /\ entry' = text
    /\ UNCHANGED <<loggedIn, effectRan, mood, entries, aiResult, errorMessage,
                   showLoginAlert, net, nextId, nextTemp, store, pageFrame>>

\* line 202: onClick of a mood button
ClickMood(m) ==
    /\ mood' = IF m = mood THEN "" ELSE m
    /\ UNCHANGED <<loggedIn, effectRan, entry, entries, aiResult, errorMessage,
                   showLoginAlert, net, nextId, nextTemp, store, pageFrame>>

\* lines 75-112, up to the await
HandleSubmit ==
    IF ~loggedIn
    THEN /\ errorMessage' = ""
         /\ showLoginAlert' = TRUE
         /\ UNCHANGED <<loggedIn, effectRan, entry, mood, entries, aiResult,
                        net, nextId, nextTemp, store, pageFrame>>
    ELSE IF IsBlank(entry)
    THEN /\ errorMessage' = "Please write something before saving."
         /\ UNCHANGED <<loggedIn, effectRan, entry, mood, entries, aiResult,
                        showLoginAlert, net, nextId, nextTemp, store, pageFrame>>
    ELSE IF mood = ""
    THEN /\ errorMessage' = "Please select your current mood."
         /\ UNCHANGED <<loggedIn, effectRan, entry, mood, entries, aiResult,
                        showLoginAlert, net, nextId, nextTemp, store, pageFrame>>
    ELSE /\ nextTemp <= MaxSubmits
         /\ CanSend
         /\ \E salt \in Salts :
               LET tempEntry == [id |-> TempId(nextTemp),
                                 text |-> entry,
                                 mood |-> mood,
                                 dateOnly |-> LocalDay(now)]
               IN  /\ entries' = <<tempEntry>> \o entries
                   /\ net' = net \cup
                        {[kind |-> "POST", phase |-> "sent",
                          tempId |-> tempEntry.id,
                          typed |-> entry,
                          body |-> [text |-> EncryptText(entry, salt),
                                    mood |-> tempEntry.mood,
                                    dateOnly |-> tempEntry.dateOnly]]}
         /\ errorMessage' = ""
         /\ entry' = <<>>
         /\ mood' = ""
         /\ aiResult' = "none"
         /\ nextTemp' = nextTemp + 1
         /\ UNCHANGED <<loggedIn, effectRan, showLoginAlert, nextId, store, pageFrame>>

\* lines 113-122: the saved entry replaces the temporary one
SubmitResponded(m) ==
    /\ m \in Ok("POST")
    /\ \E random \in Salts :
          entries' = <<Displayed(m.data, random)>>
                     \o SelectSeq(entries, LAMBDA en : en.id # m.tempId)
    /\ net' = net \ {m}
    /\ UNCHANGED <<loggedIn, effectRan, entry, mood, aiResult, errorMessage,
                   showLoginAlert, nextId, nextTemp, store, pageFrame>>

\* lines 123-125: console.error
SubmitFailed(m) ==
    /\ m \in Failed("POST")
    /\ net' = net \ {m}
    /\ UNCHANGED <<loggedIn, effectRan, entry, mood, entries, aiResult, errorMessage,
                   showLoginAlert, nextId, nextTemp, store, pageFrame>>

\* lines 128-133, up to the await; the Delete button is rendered for a user
HandleDelete(entryId) ==
    /\ loggedIn
    /\ \E i \in 1..Len(entries) : entries[i].id = entryId
    /\ [kind |-> "DELETE", phase |-> "sent", entryId |-> entryId] \notin net
    /\ CanSend
    /\ net' = net \cup {[kind |-> "DELETE", phase |-> "sent", entryId |-> entryId]}
    /\ UNCHANGED <<loggedIn, effectRan, entry, mood, entries, aiResult, errorMessage,
                   showLoginAlert, nextId, nextTemp, store, pageFrame>>

\* line 134
DeleteResponded(m) ==
    /\ m \in Ok("DELETE")
    /\ entries' = SelectSeq(entries, LAMBDA e : e.id # m.entryId)
    /\ net' = net \ {m}
    /\ UNCHANGED <<loggedIn, effectRan, entry, mood, aiResult, errorMessage,
                   showLoginAlert, nextId, nextTemp, store, pageFrame>>

\* lines 135-137: console.error
DeleteFailed(m) ==
    /\ m \in Failed("DELETE")
    /\ net' = net \ {m}
    /\ UNCHANGED <<loggedIn, effectRan, entry, mood, entries, aiResult, errorMessage,
                   showLoginAlert, nextId, nextTemp, store, pageFrame>>

\* lines 140-154, up to the await
HandleAiAnalyze ==
    IF ~loggedIn
    THEN /\ showLoginAlert' = TRUE
         /\ UNCHANGED <<loggedIn, effectRan, entry, mood, entries, aiResult,
                        errorMessage, net, nextId, nextTemp, store, pageFrame>>
    ELSE IF IsBlank(entry)
    THEN /\ errorMessage' = "Please write something to analyze."
         /\ UNCHANGED <<loggedIn, effectRan, entry, mood, entries, aiResult,
                        showLoginAlert, net, nextId, nextTemp, store, pageFrame>>
    ELSE /\ CanSend
         /\ [kind |-> "AI", phase |-> "sent", typed |-> entry,
             body |-> [journalText |-> entry]] \notin net
         /\ aiResult' = "Analyzing..."
         /\ net' = net \cup {[kind |-> "AI", phase |-> "sent", typed |-> entry,
                              body |-> [journalText |-> entry]]}
         /\ UNCHANGED <<loggedIn, effectRan, entry, mood, entries, errorMessage,
                        showLoginAlert, nextId, nextTemp, store, pageFrame>>

\* lines 156-158
AiResponded(m) ==
    /\ m \in Ok("AI")
    /\ aiResult' = "aiMessage"
    /\ net' = net \ {m}
    /\ UNCHANGED <<loggedIn, effectRan, entry, mood, entries, errorMessage,
                   showLoginAlert, nextId, nextTemp, store, pageFrame>>

\* lines 159-164
AiFailed(m) ==
    /\ m \in Failed("AI")
    /\ aiResult' = "AI analysis failed. Please try again later."
    /\ net' = net \ {m}
    /\ UNCHANGED <<loggedIn, effectRan, entry, mood, entries, errorMessage,
                   showLoginAlert, nextId, nextTemp, store, pageFrame>>

serverFrame == <<loggedIn, effectRan, entry, mood, entries, aiResult, errorMessage,
                 showLoginAlert, nextTemp, pageFrame>>

Respond(m, reply) == net' = (net \ {m}) \cup {reply}

\* GET /api/journal: the entries of the user
ServeGet(m) ==
    /\ m \in Sent("GET")
    /\ Respond(m, [kind |-> "GET", phase |-> "ok", data |-> store])
    /\ UNCHANGED <<store, nextId, serverFrame>>

\* POST /api/journal: the entry is created and returned
ServePost(m) ==
    /\ m \in Sent("POST")
    /\ LET created == [id |-> nextId,
                       text |-> m.body.text,
                       mood |-> m.body.mood,
                       dateOnly |-> m.body.dateOnly,
                       createdAt |-> now,
                       plain |-> m.typed,
                       intact |-> TRUE]
       IN  /\ store' = Append(store, created)
           /\ Respond(m, [kind |-> "POST", phase |-> "ok", tempId |-> m.tempId,
                          data |-> created])
    /\ nextId' = nextId + 1
    /\ UNCHANGED serverFrame

\* DELETE /api/journal/:id: the entry is removed, or there is none
ServeDelete(m) ==
    /\ m \in Sent("DELETE")
    /\ IF \E i \in 1..Len(store) : store[i].id = m.entryId
       THEN /\ store' = SelectSeq(store, LAMBDA e : e.id # m.entryId)
            /\ Respond(m, [kind |-> "DELETE", phase |-> "ok", entryId |-> m.entryId])
       ELSE /\ UNCHANGED store
            /\ Respond(m, [kind |-> "DELETE", phase |-> "failed", entryId |-> m.entryId])
    /\ UNCHANGED <<nextId, serverFrame>>

\* POST /api/ai/analyze
ServeAnalyze(m) ==
    /\ m \in Sent("AI")
    /\ Respond(m, [kind |-> "AI", phase |-> "ok"])
    /\ UNCHANGED <<store, nextId, serverFrame>>

\* the request does not get through, or the route answers with an error
RequestFails(m) ==
    /\ m \in net
    /\ m.phase = "sent"
    /\ Respond(m, IF m.kind = "POST"
                  THEN [kind |-> "POST", phase |-> "failed", tempId |-> m.tempId]
                  ELSE IF m.kind = "DELETE"
                  THEN [kind |-> "DELETE", phase |-> "failed", entryId |-> m.entryId]
                  ELSE [kind |-> m.kind, phase |-> "failed"])
    /\ UNCHANGED <<store, nextId, serverFrame>>

\* the texts typed into the textarea: nothing, a newline, a letter, and the
\* text of the failure placeholder
PageTexts == {<<>>, <<1>>, <<0>>, FailedToDecrypt}

\* the texts that are saved: a letter, and the text of the failure placeholder
JournalTexts == {<<0>>, FailedToDecrypt}

\* the texts a build with another SECRET_KEY saved
OtherBuildTexts == {<<0>>, <<0, WarnChar>>}

ClickedMoods == {moods[i] : i \in 1..MaxMoodButton}

\* an entry of the user that a build with another SECRET_KEY saved
OtherBuildSaves ==
    /\ nextId <= MaxSubmits + 1
    /\ \A i \in 1..Len(store) : store[i].intact
    /\ \E x \in OtherBuildTexts : \E k \in Keys \ {secretKey} : \E salt \in Salts :
          store' = Append(store, [id |-> nextId,
                                  text |-> Encrypt(x, k, salt),
                                  mood |-> moods[1],
                                  dateOnly |-> CalendarDay(now),
                                  createdAt |-> now,
                                  plain |-> x,
                                  intact |-> FALSE])
    /\ nextId' = nextId + 1
    /\ UNCHANGED <<net, serverFrame>>

InitPage ==
    /\ loggedIn \in BOOLEAN
    /\ effectRan = FALSE
    /\ entry = <<>>
    /\ mood = ""
    /\ entries = <<>>
    /\ aiResult = "none"
    /\ errorMessage = ""
    /\ showLoginAlert = FALSE
    /\ net = {}
    /\ nextId = 1
    /\ nextTemp = 1
    /\ secretKey = 0
    /\ plain = <<>>
    /\ cipher = <<>>
    /\ origin = "none"
    /\ shown = NotYet
    /\ store = <<>>
    /\ now = 0
    /\ userExists = TRUE
    /\ InitHandler
    /\ InitHost

\* the form: typing, the mood buttons, Save Entry and Analyse with AI
NextForm ==
    \/ \E text \in PageTexts : TypeEntry(text)
    \/ \E m \in ClickedMoods : ClickMood(m)
    \/ HandleSubmit
    \/ \E m \in net : SubmitResponded(m)
    \/ \E m \in net : SubmitFailed(m)
    \/ HandleAiAnalyze
    \/ \E m \in net : AiResponded(m)
    \/ \E m \in net : AiFailed(m)
    \/ \E m \in net : ServePost(m)
    \/ \E m \in net : ServeAnalyze(m)
    \/ \E m \in net : RequestFails(m)

SpecForm == InitPage /\ [][NextForm]_vars

\* the form with Save Entry alone
NextSubmit ==
    \/ \E text \in PageTexts : TypeEntry(text)
    \/ \E m \in ClickedMoods : ClickMood(m)
    \/ HandleSubmit
    \/ \E m \in net : SubmitResponded(m)
    \/ \E m \in net : SubmitFailed(m)
    \/ \E m \in net : ServePost(m)
    \/ \E m \in net : RequestFails(m)

SpecSubmit == InitPage /\ [][NextSubmit]_vars

\* the entries: loaded, saved and deleted, with the store behind them
NextJournal ==
    \/ FetchEntries
    \/ \E m \in net : FetchResponded(m)
    \/ \E m \in net : FetchFailed(m)
    \/ \E text \in JournalTexts : TypeEntry(text)
    \/ \E m \in ClickedMoods : ClickMood(m)
    \/ HandleSubmit
    \/ \E m \in net : SubmitResponded(m)
    \/ \E m \in net : SubmitFailed(m)
    \/ \E i \in 1..Len(entries) : HandleDelete(entries[i].id)
    \/ \E m \in net : DeleteResponded(m)
    \/ \E m \in net : DeleteFailed(m)
    \/ \E m \in net : ServeGet(m)
    \/ \E m \in net : ServePost(m)
    \/ \E m \in net : ServeDelete(m)
    \/ \E m \in net : RequestFails(m)
    \/ OtherBuildSaves

SpecJournal == InitPage /\ [][NextJournal]_vars

----------------------------------------------------------------------------
(* The page in browsers of several time zones.  The clock of the model is   *)
(* the local time of the server; zone is what the browser is ahead of it.   *)

Zones == 0..MaxZone

\* lines 26-36: the page is opened again, in a browser of time zone z, once
\* the requests of the page before it are settled
Reload(z) ==
    /\ net = {}
    /\ effectRan
    /\ zone' = z
    /\ effectRan' = FALSE
    /\ entry' = <<>>
    /\ mood' = ""
    /\ entries' = <<>>
    /\ aiResult' = "none"
    /\ errorMessage' = ""
    /\ showLoginAlert' = FALSE
    /\ UNCHANGED <<loggedIn, net, nextId, nextTemp, mongo, listening, store>>
    /\ UNCHANGED <<now, userExists, pc, totalEntries, journals, response, codecVars>>

InitZones ==
    /\ loggedIn = TRUE
    /\ effectRan = FALSE
    /\ entry = <<>>
    /\ mood = ""
    /\ entries = <<>>
    /\ aiResult = "none"
    /\ errorMessage = ""
    /\ showLoginAlert = FALSE
    /\ net = {}
    /\ nextId = 1
    /\ nextTemp = 1
    /\ zone \in Zones
    /\ mongo = "connected"
    /\ listening = TRUE
    /\ store = <<>>
    /\ now \in 0..(TicksPerDay - 1)
    /\ userExists = TRUE
    /\ InitHandler
    /\ InitCodecIdle

NextZones ==
    \/ FetchEntries
    \/ \E m \in net : FetchResponded(m)
    \/ \E text \in JournalTexts : TypeEntry(text)
    \/ \E m \in ClickedMoods : ClickMood(m)
    \/ HandleSubmit
    \/ \E m \in net : SubmitResponded(m)
    \/ \E m \in net : ServeGet(m)
    \/ \E m \in net : ServePost(m)
    \/ \E z \in Zones : Reload(z)

SpecZones == InitZones /\ [][NextZones]_vars

----------------------------------------------------------------------------
(* Deleting entries, then the stats: the page shows the entries of the      *)
(* store, its Delete buttons are used, and the stats are asked for while no *)
(* delete is being served.                                                  *)

\* the moods of the entries: one of the scale and one of the page
DeleteMoods == {"Happy", moods[1]}

\* an entry this build saved on a day, as the journal route keeps it
Saved(id, m, day) ==
    [id |-> id,
     text |-> EncryptText(<<0>>, 0),
     mood |-> m,
     dateOnly |-> day,
     createdAt |-> NewDate(day),
     plain |-> <<0>>,
     intact |-> TRUE]

\* the stores of n entries with the ids 1..n
SavedStores(n) ==
    {[i \in 1..n |-> Saved(i, f[i].mood, f[i].dateOnly)] :
        f \in [1..n -> [mood : DeleteMoods, dateOnly : 0..MaxDeleteEntries]]}

\* lines 128-133 in a second tab that still shows an entry already deleted
RepeatedDelete(entryId) ==
    /\ loggedIn
    /\ \A i \in 1..Len(store) : store[i].id # entryId
    /\ [kind |-> "DELETE", phase |-> "sent", entryId |-> entryId] \notin net
    /\ CanSend
    /\ net' = net \cup {[kind |-> "DELETE", phase |-> "sent", entryId |-> entryId]}
    /\ UNCHANGED <<loggedIn, effectRan, entry, mood, entries, aiResult, errorMessage,
                   showLoginAlert, nextId, nextTemp, store, pageFrame>>

\* the page of a user with one of the stores, its entries displayed
InitDisplaying(stores) ==
    /\ InitCodecIdle
    /\ InitHost
    /\ loggedIn = TRUE
    /\ effectRan = TRUE
    /\ entry = <<>>
    /\ mood = ""
    /\ store \in stores
    /\ entries = [i \in 1..Len(store) |-> Displayed(store[i], 0)]
    /\ aiResult = "none"
    /\ errorMessage = ""
    /\ showLoginAlert = FALSE
    /\ net = {}
    /\ nextId = Len(store) + 1
    /\ nextTemp = 1
    /\ now = NewDate(MaxDeleteEntries) + 1
    /\ userExists = TRUE
    /\ InitHandler

InitDelete == InitDisplaying(UNION {SavedStores(n) : n \in 1..MaxDeleteEntries})

HandlerAtRest == pc \in {"idle", "done"}

NextDelete ==
    \/ \E i \in 1..Len(entries) : HandleDelete(entries[i].id)
    \/ \E id \in 1..MaxDeleteEntries : RepeatedDelete(id)
    \/ \E m \in net : HandlerAtRest /\ ServeDelete(m)
    \/ \E m \in net : DeleteResponded(m)
    \/ \E m \in net : DeleteFailed(m)
    \/ StatsRequest
    \/ StatsFindUser
    \/ StatsCountDocuments
    \/ StatsFind
    \/ StatsRespond

SpecDelete == InitDelete /\ [][NextDelete]_vars

\* Entries are saved and deleted while the stats handler runs: the journal
\* route serves the requests of the page between any two steps of the handler.
NextSnapshot ==
    \/ \E text \in JournalTexts : TypeEntry(text)
    \/ \E m \in ClickedMoods : ClickMood(m)
    \/ HandleSubmit
    \/ \E m \in net : SubmitResponded(m)
    \/ \E i \in 1..Len(entries) : HandleDelete(entries[i].id)
    \/ \E m \in net : DeleteResponded(m)
    \/ \E m \in net : ServePost(m)
    \/ \E m \in net : ServeDelete(m)
    \/ StatsRequest
    \/ StatsFindUser
    \/ StatsCountDocuments
    \/ StatsFind
    \/ StatsRespond

\* one entry of the scale, saved on the day of the clock or the day before
InitSnapshot ==
    InitDisplaying({<<Saved(1, "Happy", day)>> :
                       day \in {MaxDeleteEntries - 1, MaxDeleteEntries}})

SpecSnapshot == InitSnapshot /\ [][NextSnapshot]_vars

----------------------------------------------------------------------------
(* server.js: the start of the server, and the stats route once it listens *)

startFrame == <<loggedIn, effectRan, entry, mood, entries, aiResult, errorMessage,
                showLoginAlert, net, nextId, nextTemp, zone, statsVars, codecVars>>

\* a catch callback that starts the server all the same
ConnectRejectedButListens ==
    /\ mongo = "pending"
    /\ mongo' = "failed"
    /\ listening' = TRUE
    /\ UNCHANGED startFrame

\* lines 34-40: the promise of mongoose.connect is fulfilled, and the then
\* callback calls app.listen
ConnectFulfilled ==
    /\ mongo = "pending"
    /\ mongo' = "connected"
    /\ listening' = TRUE
    /\ UNCHANGED startFrame

\* lines 41-43: the promise is rejected, and the catch callback logs the error
ConnectRejected ==
    /\ mongo = "pending"
    /\ mongo' = "failed"
    /\ UNCHANGED listening
    /\ UNCHANGED startFrame

\* a request reaches the routes of line 24 only through a listening server
RequestArrives == listening /\ StatsRequest

InitServer ==
    /\ mongo = "pending"
    /\ listening = FALSE
    /\ zone = 0
    /\ loggedIn = FALSE
    /\ effectRan = FALSE
    /\ entry = <<>>
    /\ mood = ""
    /\ entries = <<>>
    /\ aiResult = "none"
    /\ errorMessage = ""
    /\ showLoginAlert = FALSE
    /\ net = {}
    /\ nextId = 1
    /\ nextTemp = 1
    /\ userExists \in BOOLEAN
    /\ store \in IF userExists
                 THEN Stores([mood : Labels, dateOnly : 0..1], MaxServerEntries)
                 ELSE {<<>>}
    /\ now = NewDate(1)
    /\ InitHandler
    /\ InitCodecIdle

NextServer ==
    \/ ConnectFulfilled
    \/ ConnectRejected
    \/ RequestArrives
    \/ StatsFindUser
    \/ StatsCountDocuments
    \/ StatsFind
    \/ StatsRespond

SpecServer == InitServer /\ [][NextServer]_vars

----------------------------------------------------------------------------
(* Properties of the stats handler *)

Answered == pc = "done" /\ response.status = 200

\* the calendar days on which js has an entry
DaySet(js) == {js[i].dateOnly : i \in 1..Len(js)}

RECURSIVE ConsecutiveDays(_, _)
\* the number of consecutive days of daySet, counted backward from day
ConsecutiveDays(daySet, day) ==
    IF day \in daySet THEN 1 + ConsecutiveDays(daySet, day - 1) ELSE 0

\* the entries of js on the days from day on
FromDay(js, day) == SelectSeq(js, LAMBDA j : j.dateOnly >= day)

\* C1: the streak of a response is the number of consecutive calendar days
\* with an entry, counted backward from the day of the clock up to the first
\* day without one, and the handler computes the same streak from the entries
\* that are not older than that first gap.
C1_StreakIsConsecutiveDays ==
    Answered =>
        /\ response.streak = ConsecutiveDays(DaySet(journals), CalendarDay(now))
        /\ response.streak =
             ComputeStreak(FromDay(journals, CalendarDay(now) - response.streak), now)

\* a streak of two days or more that stops at a gap, with an entry older than
\* the gap, an entry after today and a store that is not sorted
C1_Witness ==
    /\ Answered
    /\ response.streak >= 2
    /\ \E i \in 1..Len(journals) :
          journals[i].dateOnly < CalendarDay(now) - response.streak
    /\ \E i \in 1..Len(journals) : journals[i].dateOnly > CalendarDay(now)
    /\ \E i \in 1..Len(journals) : \E k \in 1..Len(journals) :
          i < k /\ journals[i].dateOnly < journals[k].dateOnly

\* js with one more entry on the day of its i-th entry, stored at position k
WithDuplicate(js, i, k) ==
    SubSeq(js, 1, k - 1) \o <<js[i]>> \o SubSeq(js, k, Len(js))

\* C2: one more entry on a day that already has an entry, wherever the store
\* keeps it, leaves the streak as it is.
C2_SameDayCountsOnce ==
    Answered =>
        \A i \in 1..Len(journals) : \A k \in 1..(Len(journals) + 1) :
            ComputeStreak(WithDuplicate(journals, i, k), now) = response.streak

\* two entries on today, one on yesterday, and a streak of 2
C2_Witness ==
    /\ Answered
    /\ response.streak = 2
    /\ \E i \in 1..Len(journals) : \E k \in 1..Len(journals) :
          /\ i # k
          /\ journals[i].dateOnly = CalendarDay(now)
          /\ journals[k].dateOnly = CalendarDay(now)

\* C3: without an entry on the day of the clock the streak is 0, and the
\* handler of an existing user answers with status 200.
C3_NoEntryTodayIsZero ==
    /\ (pc = "done" /\ userExists) => response.status = 200
    /\ (Answered /\ CalendarDay(now) \notin DaySet(journals)) => response.streak = 0

\* entries on yesterday, the day before and a later day, none today
C3_Witness ==
    /\ Answered
    /\ CalendarDay(now) \notin DaySet(journals)
    /\ CalendarDay(now) - 1 \in DaySet(journals)
    /\ CalendarDay(now) - 2 \in DaySet(journals)
    /\ \E d \in DaySet(journals) : d > CalendarDay(now)
    /\ response.streak = 0

\* the five-level scale
ScaleValue(m) ==
    CASE m = "Very Sad" -> 1
      [] m = "Sad" -> 2
      [] m = "Neutral" -> 3
      [] m = "Happy" -> 4
      [] m = "Very Happy" -> 5

RECURSIVE ScaleSum(_)
ScaleSum(js) == IF js = <<>> THEN 0 ELSE ScaleValue(Head(js).mood) + ScaleSum(Tail(js))

OnScale(js) == \A i \in 1..Len(js) : js[i].mood \in Labels

\* v tenths is a one-decimal value nearest to sum / n
NearestTenth(v, sum, n) ==
    /\ 2 * (10 * sum - v * n) <= n
    /\ 2 * (v * n - 10 * sum) <= n

\* C4: for a non-empty set of entries with moods of the scale, averageMood
\* is the mean of the scale values rounded to one decimal place: no other
\* one-decimal value is nearer to the mean, one 'Happy' gives 4.0 and the
\* values 1 and 5 give 3.0.
C4_AverageIsRoundedMean ==
    (Answered /\ journals # <<>> /\ OnScale(journals)) =>
        /\ NearestTenth(response.averageMood.tenths, ScaleSum(journals), Len(journals))
        /\ (Len(journals) = 1 /\ journals[1].mood = "Happy") =>
               response.averageMood.tenths = 40
        /\ (Len(journals) = 2 /\ {journals[1].mood, journals[2].mood} = {"Very Sad", "Very Happy"}) =>
               response.averageMood.tenths = 30

\* three entries of the scale whose mean 5/3 is rounded up to 1.7
C4_Witness ==
    /\ Answered
    /\ Len(journals) = 3
    /\ OnScale(journals)
    /\ ScaleSum(journals) = 5
    /\ response.averageMood.tenths = 17

\* C5: for a user without entries the handler answers with status 200,
\* totalEntries 0, averageMood the number 0 and streak 0.
C5_EmptySetIsAllZero ==
    (pc = "done" /\ userExists /\ store = <<>>) =>
        response = [status |-> 200,
                    totalEntries |-> 0,
                    averageMood |-> [kind |-> "number", tenths |-> 0],
                    streak |-> 0]

C5_Witness ==
    /\ Answered
    /\ store = <<>>
    /\ journals = <<>>
    /\ response.totalEntries = 0

----------------------------------------------------------------------------
(* Properties of the codec *)

Decrypted == shown # NotYet

\* C7: decryptText applied to the output of encryptText for a text returns
\* that text, for every text and every key.
C7_RoundTrip ==
    (Decrypted /\ origin = "encryptText") => shown = plain

\* the round trip of the texts that are not empty
RoundTripOfNonEmpty ==
    (Decrypted /\ origin = "encryptText" /\ plain # <<>>) => shown = plain

\* C9: decryptText always returns, and for a ciphertext that is not the intact
\* output of encryptText under this key (made with another key, with a byte
\* changed, cut short, without its prefix) it returns a failure placeholder,
\* never a text other than the one that was encrypted.
C9_DecryptFailsClosed ==
    (Decrypted /\ origin # "encryptText") =>
        (shown \in Placeholders \/ shown = plain)

\* a placeholder is returned only for a failure
PlaceholderMeansFailure ==
    (Decrypted /\ origin = "encryptText" /\ plain # <<>>) =>
        shown \notin Placeholders

\* a damaged or foreign ciphertext is returned as a text that was never written
WrongTextAsSuccess ==
    /\ Decrypted
    /\ origin # "encryptText"
    /\ shown \notin Placeholders
    /\ shown # plain

----------------------------------------------------------------------------
(* Properties of the page *)

\* C6: every mood the page submits with an entry, and so every mood of a
\* stored entry, has its own value in moodMap.
C6_SubmittedMoodsAreMapped ==
    /\ \A m \in Sent("POST") : m.body.mood \in DOMAIN moodMap
    /\ \A i \in 1..Len(store) : store[i].mood \in DOMAIN moodMap

\* the text a request of the page carries
CarriedText(m) == IF m.kind = "POST" THEN m.body.text ELSE m.body.journalText

\* C8: in every request of the page that carries the text the user typed, the
\* text is an output of encryptText for it and not the typed text itself.
C8_TextLeavesEncrypted ==
    \A m \in Sent("POST") \cup Sent("AI") :
        /\ CarriedText(m) # m.typed
        /\ \E salt \in Salts : CarriedText(m) = EncryptText(m.typed, salt)

\* the save request alone carries an output of encryptText
SavedTextLeavesEncrypted ==
    \A m \in Sent("POST") :
        /\ m.body.text # m.typed
        /\ \E salt \in Salts : m.body.text = EncryptText(m.typed, salt)

Undecryptable(data) == {i \in 1..Len(data) : ~data[i].intact}

\* C10: when the two or more entries of a GET response, one of which is not a
\* ciphertext of this build, are displayed, the list has as many entries as the response,
\* each other entry shows the text its author wrote, and the one that cannot
\* be decrypted shows a failure placeholder.
C10_DecodeFailuresIndependent ==
    [][\A m \in net :
          (/\ FetchResponded(m)
           /\ Len(m.data) >= 2
           /\ Cardinality(Undecryptable(m.data)) = 1) =>
              /\ Len(entries') = Len(m.data)
              /\ \A i \in 1..Len(m.data) :
                    IF m.data[i].intact
                    THEN entries'[i].text = m.data[i].plain
                    ELSE entries'[i].text \in Placeholders]_vars

\* the entries that are ciphertexts of this build are displayed with their
\* texts, whatever the other entries of the response are
IntactEntriesAreDisplayed ==
    [][\A m \in net :
          FetchResponded(m) =>
              /\ Len(entries') = Len(m.data)
              /\ \A i \in 1..Len(m.data) :
                    m.data[i].intact => entries'[i].text = m.data[i].plain]_vars

\* the entry of the store that a displayed entry shows
Stored(e) == {k \in 1..Len(store) : store[k].id = e.id}

\* C11: for every entry, in whatever time zones the browser that created it,
\* the browser that shows it and the server are, the day stored as dateOnly,
\* the day the page shows for it and the day the streak loop takes it for are
\* the same day.
C11_CalendarDayIsStable ==
    \A i \in 1..Len(entries) : \A k \in Stored(entries[i]) :
        /\ entries[i].dateOnly = store[k].dateOnly
        /\ CalendarDay(NewDate(store[k].dateOnly)) = store[k].dateOnly

\* the day the streak loop takes an entry for is the day stored with it
StreakGroupsByStoredDay ==
    \A k \in 1..Len(store) :
        CalendarDay(NewDate(store[k].dateOnly)) = store[k].dateOnly

\* the entries of js without the one of the id
Without(js, id) == SelectSeq(js, LAMBDA e : e.id # id)

\* the stats of the entries js on the day of the clock
SummaryOf(js) ==
    [status |-> 200,
     totalEntries |-> Len(js),
     averageMood |-> AverageMood(js),
     streak |-> ConsecutiveDays(DaySet(js), CalendarDay(now))]

\* C12: a delete leaves the store without the entry of the id and nothing
\* else changed, a repeated delete of the id leaves the store as it is, and
\* the stats response after it has the totalEntries, averageMood and streak
\* of the entries that are left.
C12_DeleteReflectedOnce ==
    /\ [][\A m \in net : ServeDelete(m) =>
              /\ store' = Without(store, m.entryId)
              /\ Without(store', m.entryId) = store'
              /\ (\A i \in 1..Len(store) : store[i].id # m.entryId) => store' = store]_vars
    /\ [][StatsRespond => response' = SummaryOf(store)]_vars

\* stats asked for after an entry was deleted and a second delete of its id
\* was refused: one entry of two is left, and the response counts one
C12_Witness ==
    /\ Answered
    /\ nextId - 1 = 2
    /\ Len(store) = 1
    /\ response.totalEntries = 1
    /\ \E m \in Failed("DELETE") : \A i \in 1..Len(store) : store[i].id # m.entryId

\* the calendar days of the dates the entries of js are stored with
DaysOf(js) == {CalendarDay(NewDate(js[i].dateOnly)) : i \in 1..Len(js)}

\* C13: the streak of a response is a function of the set of the calendar
\* days of the entries and of the calendar day of the clock alone, whatever
\* the time of day of the clock, the times of day of the stored dates and the
\* order of the entries in the store are.
C13_StreakIsPure ==
    Answered =>
        response.streak = ConsecutiveDays(DaysOf(journals), CalendarDay(now))

\* a streak of two days, counted at midnight from an entry dated later on
\* that day and an entry, stored before it, dated in the course of the day
\* before
C13_Witness ==
    /\ Answered
    /\ response.streak = 2
    /\ now % TicksPerDay = 0
    /\ \E i \in 1..Len(journals) : \E k \in 1..Len(journals) :
          /\ i < k
          /\ journals[i].dateOnly < Malformed
          /\ NewDate(journals[i].dateOnly) < now
          /\ CalendarDay(NewDate(journals[i].dateOnly)) = CalendarDay(now) - 1
          /\ journals[k].dateOnly < Malformed
          /\ NewDate(journals[k].dateOnly) > now
          /\ CalendarDay(NewDate(journals[k].dateOnly)) = CalendarDay(now)

\* the entries of js whose dateOnly is a date
WellFormed(js) == SelectSeq(js, LAMBDA j : j.dateOnly # Malformed)

\* C14: with entries whose dateOnly is no date in the store, the handler
\* answers with status 200 and with the streak it computes for the entries
\* that are left when those are removed.
C14_MalformedEntriesAreExcluded ==
    (pc = "done" /\ userExists) =>
        /\ response.status = 200
        /\ response.streak = ComputeStreak(WellFormed(journals), now)

\* the handler answers whatever the dateOnly of the entries are
MalformedEntriesDoNotAbort ==
    (pc = "done" /\ userExists) => response.status = 200

\* C17: while no request of the page is in flight, every displayed entry is
\* an entry of the store; the temporary entry of a submission is gone once its
\* POST has succeeded or failed.
C17_NoPhantomEntries ==
    net = {} => \A i \in 1..Len(entries) : Stored(entries[i]) # {}

\* the success handler of a submission leaves no entry with its temporary id
SavedSubmissionLeavesNoTemp ==
    [][\A m \in net :
          SubmitResponded(m) =>
              \A i \in 1..Len(entries') : entries'[i].id # m.tempId]_vars

\* the positions at which the displayed list shows the entry of the id
ShownAt(id) == {i \in 1..Len(entries) : entries[i].id = id}

\* the entries of the store this page saved and has had the POST response of
SavedAndAnswered ==
    {k \in 1..Len(store) :
        /\ store[k].intact
        /\ \A m \in Ok("POST") : m.data.id # store[k].id}

\* C18: an entry whose POST has succeeded is displayed exactly once for as
\* long as it is in the store, however the response of the first GET, other
\* submissions and deletions interleave with it.
C18_SavedEntryStaysOnce ==
    \A k \in SavedAndAnswered : Cardinality(ShownAt(store[k].id)) = 1

\* a saved entry is displayed twice
SavedEntryShownTwice ==
    \E k \in SavedAndAnswered : Cardinality(ShownAt(store[k].id)) >= 2

\* a saved entry is not displayed while nothing is in flight
SavedEntryLost ==
    /\ net = {}
    /\ \E k \in SavedAndAnswered : ShownAt(store[k].id) = {}

\* the text has no character other than white space
OnlyWhiteSpace(text) == ~\E i \in 1..Len(text) : text[i] = 0 \/ text[i] > BlockSize

\* C19: a call of handleSubmit without a logged-in user, with a text that is
\* empty or only white space, or without a mood sends no request and leaves
\* the displayed entries, the typed text and the selected mood as they are.
C19_RejectedSubmitHasNoEffect ==
    [][(/\ HandleSubmit
        /\ (~loggedIn \/ OnlyWhiteSpace(entry) \/ mood = ""))
          => UNCHANGED <<entries, entry, mood, net, store>>]_vars

\* a submission with a mood and a text of white space was rejected, with an
\* entry on display
C19_Witness ==
    /\ loggedIn
    /\ errorMessage = "Please write something before saving."
    /\ entry # <<>>
    /\ OnlyWhiteSpace(entry)
    /\ mood # ""
    /\ entries # <<>>
    /\ net = {}

\* a submission without a mood was rejected
RejectedWithoutMood ==
    /\ loggedIn
    /\ errorMessage = "Please select your current mood."
    /\ ~OnlyWhiteSpace(entry)
    /\ mood = ""

\* a submission without a user was rejected
RejectedWithoutUser ==
    /\ ~loggedIn
    /\ showLoginAlert
    /\ ~OnlyWhiteSpace(entry)
    /\ mood # ""

\* C16: the totalEntries of a stats response is the number of the entries
\* from which the averageMood and the streak of that response were computed,
\* also when entries are saved and deleted while the handler runs.
C16_OneSnapshotPerResponse ==
    Answered =>
        /\ response.totalEntries = Len(journals)
        /\ response.averageMood = AverageMood(journals)
        /\ response.streak = ComputeStreak(journals, now)

\* the averageMood and the streak of a response are those of the entries the
\* one find returned
MoodAndStreakFromOneRead ==
    Answered =>
        /\ response.averageMood = AverageMood(journals)
        /\ response.streak = ComputeStreak(journals, now)

----------------------------------------------------------------------------
(* Properties of the start of the server *)

\* C15: the server listens only when the connection to the database has
\* succeeded, it begins to listen in the step in which the connection
\* succeeds, and once the connection has failed it does not listen, then or
\* later.
C15_ListenOnlyAfterConnect ==
    /\ [](listening => mongo = "connected")
    /\ [][(~listening /\ listening') => (mongo = "pending" /\ mongo' = "connected")]_vars
    /\ [][mongo = "failed" => (mongo' = "failed" /\ ~listening')]_vars

\* the server has connected and listens, and has answered a request
C15_Witness ==
    /\ mongo = "connected"
    /\ listening
    /\ Answered

\* the connection has failed and no request was handled
ConnectionFailed ==
    /\ mongo = "failed"
    /\ ~listening
    /\ pc = "idle"

====
